---- MODULE Spec2Model ----
(***************************************************************************)
(* comexchat: one handled chat input of agent.py.  The Streamlit script    *)
(* takes the prompt, run_agent_async opens the MCP session, loads the      *)
(* tools, compiles the two-node graph (agent -> action -> agent, END when  *)
(* should_continue says "end"), runs it with ainvoke, extracts the result  *)
(* from the final state and the script appends the answer to the history.  *)
(* The tools are the four MCP tools of comexstat.py: each builds one HTTP  *)
(* request, sends it to the ComexStat API and returns the data of the      *)
(* response, or None when the exchange failed.                             *)
(*                                                                         *)
(* A Python string is a sequence of pieces (<<"a", " ">>): concatenation   *)
(* is \o and strip() removes the blank pieces at both ends.  The quote      *)
(* characters of the source's literals are left out of the pieces.         *)
(***************************************************************************)
EXTENDS Integers, Sequences, FiniteSets, TLC

VARIABLES
    history,            \* st.session_state.messages
    prompt,             \* the chat input being handled
    pc,                 \* where the handling of the input stands
    handle_tool_errors, \* whether ToolNode(tools), built with its defaults, catches what a
                        \* tool raises: fixed by the installed langgraph build
    messages,           \* AgentState["messages"]
    prompt_value,       \* the input of the latest model invocation
    outputs,            \* the running batch: request index -> "pending" or its ToolMessage
    nInvoke,            \* model invocations of this turn
    dispatched,         \* the call ids handed to a tool, in dispatch order
    step,               \* super-steps of the graph run so far
    agent_result,       \* what run_agent_async returns
    setup_outcome,      \* the latest awaited step of the session setup and how it ended
    runs,               \* executions of run_agent_async started for this input
    retry,              \* the script is in its nest_asyncio retry
    response,           \* the script's response
    served,             \* comexstat.py: the latest tool invocation (tool, arguments)
    request,            \* the HTTP request it sent
    upstream,           \* what the upstream answered
    returned,           \* what the tool gave to its caller
    log,                \* the branch of the tool that logged the outcome
    exchanged,          \* call id -> the HTTP exchanges (request, answer) made for it
    turns,              \* two sessions of the script at once: turn -> its run_agent_async
    model               \* what get_model() holds in the cache of st.cache_resource

vars == <<history, prompt, pc, handle_tool_errors, messages, prompt_value,
          outputs, nInvoke, dispatched, step, agent_result, setup_outcome, runs, retry,
          response, served, request, upstream, returned, log, exchanged, turns, model>>

\* the script's own variables besides the history
script == <<runs, retry, response>>

\* the variables of the tool server (comexstat.py)
client == <<served, request, upstream, returned, log>>

\* the variables of two sessions at once
sessions == <<turns, model>>

---------------------------------------------------------------------------
(* Bounds of the model *)

\* tool-call requests the engine may issue in one turn
MaxCalls == 3
\* earlier turns (user entry + assistant entry) already in the history
MaxHistory == 1

(* Program constants *)

\* the graph runtime's default recursion limit: ainvoke is called without a config
RecursionLimit == 25

\* seconds
TOOL_LOAD_TIMEOUT == 45
SERVER_SCRIPT_PATH == "comexstat.py"
CUSTOM_SYSTEM_PROMPT == <<"Voce e um assistente util especializado em dados de comercio exterior brasileiro (ComexStat).">>

---------------------------------------------------------------------------
(* Inputs *)

Prompts == {<<"q1">>, <<"q2">>}

\* texts of an assistant message: none, blank, plain, padded
Contents == {<< >>, <<" ">>, <<"a">>, <<" ", "a", " ">>}

\* the requests the engine picks from: (tool name, arguments)
ToolCalls ==
    { [name |-> "fetch_auxiliary_table", args |-> "table_name=countries"],
      [name |-> "dados_gerais", args |-> "flow=export"] }

\* what a tool returns
Payloads == {"data"}

\* the text of a raised exception
Errors == {"boom"}

---------------------------------------------------------------------------
(* Strings *)

IsBlank(s) == s \in {"", " "}

RECURSIVE LStrip(_)
LStrip(s) == IF s # << >> /\ IsBlank(Head(s)) THEN LStrip(Tail(s)) ELSE s

RECURSIVE RStrip(_)
RStrip(s) ==
    IF s # << >> /\ IsBlank(s[Len(s)]) THEN RStrip(SubSeq(s, 1, Len(s) - 1)) ELSE s

\* str.strip()
Strip(s) == RStrip(LStrip(s))

RECURSIVE Join(_, _)
\* sep.join(parts), parts a sequence of strings
Join(sep, parts) ==
    IF parts = << >> THEN << >>
    ELSE IF Len(parts) = 1 THEN parts[1]
    ELSE parts[1] \o sep \o Join(sep, Tail(parts))

---------------------------------------------------------------------------
(* Messages *)

SystemMessage(c) ==
    [type |-> "system", content |-> c, tool_calls |-> << >>,
     tool_call_id |-> 0, name |-> "", status |-> ""]

HumanMessage(c) ==
    [type |-> "human", content |-> c, tool_calls |-> << >>,
     tool_call_id |-> 0, name |-> "", status |-> ""]

AIMessage(c, calls) ==
    [type |-> "ai", content |-> c, tool_calls |-> calls,
     tool_call_id |-> 0, name |-> "", status |-> ""]

ToolMessage(c, id, nm, st) ==
    [type |-> "tool", content |-> c, tool_calls |-> << >>,
     tool_call_id |-> id, name |-> nm, status |-> st]

Last(s) == s[Len(s)]

IsAI(m) == m.type = "ai"
IsTool(m) == m.type = "tool"

\* the requests of every assistant message, in message order then request order
RECURSIVE IssuedCalls(_)
IssuedCalls(msgs) ==
    IF msgs = << >> THEN << >>
    ELSE (IF IsAI(Head(msgs)) THEN Head(msgs).tool_calls ELSE << >>)
         \o IssuedCalls(Tail(msgs))

---------------------------------------------------------------------------
(* The graph: state, nodes, edges *)

\* mutant: the node's output replaces the state
ReplaceMessages(old, new) == new

\* AgentState.messages is Annotated[..., operator.add]: a node's output is added
AddMessages(old, new) == old \o new

\* mutant: the graph ends after the first pass of the agent node
should_continue_always_end(state) == "end"

\* mutant: a state without messages goes on to the tools
should_continue_on_empty(state) ==
    IF state = << >> THEN "continue"
    ELSE IF ~IsAI(Last(state)) \/ Last(state).tool_calls = << >> THEN "end"
    ELSE "continue"

\* mutant: the test of the tool calls is inverted
should_continue_inverted(state) ==
    IF state = << >> THEN "end"
    ELSE IF IsAI(Last(state)) /\ Last(state).tool_calls = << >> THEN "continue"
    ELSE "end"

should_continue(state) ==
    IF state = << >> THEN "end"
    ELSE IF ~IsAI(Last(state)) \/ Last(state).tool_calls = << >> THEN "end"
    ELSE "continue"

\* mutant: "continue" is wired back to the agent node
AfterAgentToAgent(state) ==
    IF should_continue(state) = "continue" THEN "agent" ELSE "end"

\* add_conditional_edges("agent", should_continue, {"continue": "action", "end": END})
AfterAgent(state) ==
    IF should_continue(state) = "continue" THEN "action" ELSE "end"

\* mutant: the placeholder comes before the system message
AgentPromptSystemLast(state) == state \o <<SystemMessage(CUSTOM_SYSTEM_PROMPT)>>

\* ChatPromptTemplate [SystemMessage, MessagesPlaceholder("messages")] .invoke(state)
AgentPrompt(state) == <<SystemMessage(CUSTOM_SYSTEM_PROMPT)>> \o state

\* call_model returns only the new message
CallModelOutput(ai_message) == <<ai_message>>

\* mutant: the chat history is replayed into the agent input
AgentInputWithHistory(user_query) ==
    [i \in DOMAIN history |->
        IF history[i].role = "user"
        THEN HumanMessage(history[i].content)
        ELSE AIMessage(history[i].content, << >>)]

\* agent_input of ainvoke
AgentInput(user_query) == <<HumanMessage(user_query)>>

Pending == ToolMessage(<< >>, 0, "", "pending")

\* the ToolMessage of one request whose tool returned
ToolSuccess(call, payload) == ToolMessage(<<payload>>, call.id, call.name, "success")

\* the ToolMessage of one request whose tool raised, when the node handles it
ToolError(call, e) ==
    ToolMessage(<<"Error: ", e, "\n Please fix your mistakes.">>,
                call.id, call.name, "error")

\* mutant: the messages are returned last request first
ToolNodeOutputReversed(outs) == [i \in DOMAIN outs |-> outs[Len(outs) + 1 - i]]

\* mutant: only the first request's message is returned
ToolNodeOutputFirstOnly(outs) == <<outs[1]>>

\* the tool node's output: one message per request, in request order
ToolNodeOutput(outs) == outs

\* mutant: the requests of every assistant message are run again
ToolNodeCallsAll(state) == IssuedCalls(state)

\* the requests the tool node runs: those of the last message
ToolNodeCalls(state) == Last(state).tool_calls

\* mutant: the handler leaves agent_result at its initial value
AinvokeErrorUnset(e) == <<"Error: Agent execution did not complete as expected.">>

AinvokeError(e) == <<"An error occurred during agent execution (ainvoke): ", e>>

GraphRecursionError ==
    "Recursion limit of 25 reached without hitting a stop condition."

\* mutant: no limit on the super-steps
RecursionNever == FALSE

RecursionReached == step >= RecursionLimit

---------------------------------------------------------------------------
(* The engine: any assistant message, with fresh call identifiers *)

RECURSIVE WithIds(_, _)
WithIds(calls, from) ==
    IF calls = << >> THEN << >>
    ELSE <<[id |-> from + 1, name |-> Head(calls).name, args |-> Head(calls).args]>>
         \o WithIds(Tail(calls), from + 1)

RECURSIVE SeqsUpTo(_, _)
\* the non-empty sequences over S of length at most n
SeqsUpTo(S, n) ==
    IF n <= 0 THEN {}
    ELSE LET shorter == SeqsUpTo(S, n - 1)
         IN  {<<x>> : x \in S} \cup shorter
             \cup {Append(s, x) : s \in shorter, x \in S}

Finals == {AIMessage(c, << >>) : c \in Contents}

Batches(state, n) ==
    {AIMessage(<< >>, WithIds(b, Len(IssuedCalls(state)))) : b \in SeqsUpTo(ToolCalls, n)}

\* what the engine may answer in a turn that issues at most MaxCalls requests
Responses(state) == Finals \cup Batches(state, MaxCalls - Len(IssuedCalls(state)))

\* an engine that asks for tool calls in every response: any batch while fewer
\* than MaxCalls requests were issued, then one more table lookup each time
LoopResponses(state) ==
    IF Len(IssuedCalls(state)) < MaxCalls
    THEN Batches(state, MaxCalls - Len(IssuedCalls(state)))
    ELSE {AIMessage(<< >>,
                    WithIds(<<[name |-> "fetch_auxiliary_table",
                               args |-> "table_name=countries"]>>,
                            Len(IssuedCalls(state))))}

---------------------------------------------------------------------------
(* run_agent_async: the result extracted from the final state *)

ToolCallInfo(tool_call) ==
    <<"* **Tool:** ", tool_call.name, "\n* **Arguments:** ", tool_call.args>>

RECURSIVE CallsInfo(_)
CallsInfo(calls) ==
    IF calls = << >> THEN << >>
    ELSE <<ToolCallInfo(Head(calls))>> \o CallsInfo(Tail(calls))

RECURSIVE LastBatch(_)
LastBatch(msgs) ==
    IF msgs = << >> THEN << >>
    ELSE IF IsAI(Last(msgs)) /\ Last(msgs).tool_calls # << >>
    THEN Last(msgs).tool_calls
    ELSE LastBatch(SubSeq(msgs, 1, Len(msgs) - 1))

\* mutant: only the requests of the last batch are listed
ToolCallsInfoLastBatch(msgs) == CallsInfo(LastBatch(msgs))

RECURSIVE ToolCallsInfo(_)
\* tool_calls_info: one entry per request of every AIMessage of the final state
ToolCallsInfo(msgs) ==
    IF msgs = << >> THEN << >>
    ELSE (IF IsAI(Head(msgs)) /\ Head(msgs).tool_calls # << >>
          THEN CallsInfo(Head(msgs).tool_calls) ELSE << >>)
         \o ToolCallsInfo(Tail(msgs))

EmptyNotice == <<"Agent finished, but the final message was empty.">>
PlanningNotice == <<"Agent finished unexpectedly while planning to use tools.">>
UnexpectedNotice == <<"Agent finished, but the final state is unexpected.">>
ToolsUsedHeader == <<"\n\n---\n**Tools Used:**\n">>

ToolFailedNotice(m) ==
    <<"An error occurred during tool execution: ", "Tool ", m.name, " failed: ">>
    \o m.content

NoSummaryNotice(m) ==
    <<"Agent finished after using tool ", m.name, ", but did not provide a final summary.">>

\* mutant: the text is not stripped
FinalContentUnstripped(msgs) ==
    IF msgs # << >> /\ IsAI(Last(msgs)) /\ Last(msgs).tool_calls = << >>
    THEN Last(msgs).content
    ELSE << >>

\* final_content: the stripped text of a last AIMessage without tool calls (<< >>: None)
FinalContent(msgs) ==
    IF msgs # << >> /\ IsAI(Last(msgs)) /\ Last(msgs).tool_calls = << >>
    THEN Strip(Last(msgs).content)
    ELSE << >>

\* mutant: the text of a last assistant message is the answer even with tool calls
EdgeResultTextFirst(msgs) ==
    IF msgs # << >> /\ IsAI(Last(msgs))
    THEN IF Last(msgs).tool_calls = << >> THEN EmptyNotice
         ELSE IF Strip(Last(msgs).content) # << >> THEN Strip(Last(msgs).content)
         ELSE PlanningNotice
    ELSE IF msgs # << >> /\ IsTool(Last(msgs))
    THEN IF Last(msgs).status = "error"
         THEN ToolFailedNotice(Last(msgs))
         ELSE NoSummaryNotice(Last(msgs))
    ELSE UnexpectedNotice

\* mutant: the status of a last tool message is not looked at
EdgeResultAnyStatus(msgs) ==
    IF msgs # << >> /\ IsAI(Last(msgs))
    THEN IF Last(msgs).tool_calls = << >> THEN EmptyNotice ELSE PlanningNotice
    ELSE IF msgs # << >> /\ IsTool(Last(msgs))
    THEN NoSummaryNotice(Last(msgs))
    ELSE UnexpectedNotice

\* agent_result when final_content is None
EdgeResult(msgs) ==
    IF msgs # << >> /\ IsAI(Last(msgs))
    THEN IF Last(msgs).tool_calls = << >> THEN EmptyNotice ELSE PlanningNotice
    ELSE IF msgs # << >> /\ IsTool(Last(msgs))
    THEN IF Last(msgs).status = "error"
         THEN ToolFailedNotice(Last(msgs))
         ELSE NoSummaryNotice(Last(msgs))
    ELSE UnexpectedNotice

\* the "Tools Used" block appended to the answer
AuditBlock(info) ==
    IF info # << >> THEN ToolsUsedHeader \o Join(<<"\n\n">>, info) ELSE << >>

\* mutant: the audit block is appended to the notices too
ExtractResultListsAlways(msgs) ==
    (IF FinalContent(msgs) # << >> THEN FinalContent(msgs) ELSE EdgeResult(msgs))
    \o AuditBlock(ToolCallsInfo(msgs))

\* mutant: a blank final answer is returned as it is, without the notice
ExtractResultNoNotice(msgs) ==
    IF msgs # << >> /\ IsAI(Last(msgs)) /\ Last(msgs).tool_calls = << >>
    THEN FinalContent(msgs) \o AuditBlock(ToolCallsInfo(msgs))
    ELSE EdgeResult(msgs)

ExtractResult(msgs) ==
    IF FinalContent(msgs) # << >>
    THEN FinalContent(msgs) \o AuditBlock(ToolCallsInfo(msgs))
    ELSE EdgeResult(msgs)

---------------------------------------------------------------------------
(* run_agent_async: the MCP session and the setup *)

\* the awaited step of the setup and its outcome
Awaited(stage, outcome) == [stage |-> stage, outcome |-> outcome]

ConnectOutcomes == {"ok", "refused", "timeout", "error"}
SetupOutcomes == {"ok", "timeout", "error"}
LoadOutcomes == {"ok", "timeout", "error", "no_tools"}

ConnectionError(outcome, e) ==
    CASE outcome = "refused" ->
           <<"Error: Connection refused. Is the MCP server (", SERVER_SCRIPT_PATH,
             ") running or startable?">>
      [] outcome = "timeout" ->
           <<"Error: Timeout occurred during MCP connection/setup.">>
      [] OTHER ->
           <<"An unexpected error occurred during MCP connection/setup phase: ", e>>

TimeoutText == <<"Timeout (", ToString(TOOL_LOAD_TIMEOUT), ".0s) occurred during ">>

InitializeError(outcome, e) ==
    <<"Error during setup: ">>
    \o (IF outcome = "timeout"
        THEN TimeoutText \o <<"MCP session initialization.">>
        ELSE <<"Error during MCP session initialization: ", e>>)

\* mutant: the deadline of the tool loading is reported as any other failure
LoadErrorNoTimeout(outcome, e) ==
    <<"Error during setup: ">>
    \o (IF outcome = "no_tools"
        THEN <<"Error during tool loading: ", "No tools loaded from the MCP server.">>
        ELSE <<"Error during tool loading: ", e>>)

LoadError(outcome, e) ==
    <<"Error during setup: ">>
    \o (CASE outcome = "timeout" -> TimeoutText \o <<"tool loading.">>
          [] outcome = "no_tools" ->
               <<"Error during tool loading: ", "No tools loaded from the MCP server.">>
          [] OTHER -> <<"Error during tool loading: ", e>>)

---------------------------------------------------------------------------
(* comexstat.py: values.  An optional argument is << >> when it is None and  *)
(* <<x>> when x was supplied; a JSON value is tagged with what it is.        *)

Absent == << >>
Some(x) == <<x>>
Supplied(opt) == opt # << >>
ValueOf(opt) == opt[1]

\* None, and the JSON null response.json() turns into None
None == [is |-> "null", of |-> << >>]
\* a dict: its (key, value) pairs in insertion order
JDict(pairs) == [is |-> "dict", of |-> pairs]
\* a list: its values
JList(values) == [is |-> "list", of |-> values]
\* a number
JNum(n) == [is |-> "num", of |-> <<n>>]
\* a response body that is not JSON: response.json() raises on it
NotJson == [is |-> "not_json", of |-> << >>]

\* bool(v): None, 0 and the empty containers are false
Truthy(v) ==
    CASE v.is = "null" -> FALSE
      [] v.is = "num" -> v.of[1] # 0
      [] OTHER -> v.of # << >>

IsDict(v) == v.is = "dict"

\* key in d
HasKey(d, key) == \E i \in DOMAIN d.of : d.of[i][1] = key

\* d[key]
Item(d, key) == d.of[CHOOSE i \in DOMAIN d.of : d.of[i][1] = key][2]

\* what a call gives to its caller: a value, or the exception it raised
Returned(v) == [raised |-> "", value |-> v]
Raised(e) == [raised |-> e, value |-> None]

\* x.get(key, default): x has a get method only when it is a dict
Get(x, key, default) ==
    IF ~IsDict(x) THEN Raised("AttributeError")
    ELSE IF HasKey(x, key) THEN Returned(Item(x, key))
    ELSE Returned(default)

---------------------------------------------------------------------------
(* comexstat.py: the requests of the four tools *)

COMEXSTAT_API_BASE == "https://api-comexstat.mdic.gov.br"

\* seconds: the POST of the two statistics queries, the GET of a table, the GET of an item
POST_TIMEOUT == 60
TABLE_TIMEOUT == 60
ITEM_TIMEOUT == 30

\* an HTTP request: the body and the query parameters as httpx gets them
Request(method, url, json, params, timeout) ==
    [method |-> method, url |-> url, json |-> json, params |-> params, timeout |-> timeout]

NoRequest == Request("", << >>, Absent, << >>, 0)

\* mutant: only the first year entry is removed
RECURSIVE WithoutFirstYear(_)
WithoutFirstYear(list) ==
    IF list = << >> THEN << >>
    ELSE IF Head(list) = "year" THEN Tail(list)
    ELSE <<Head(list)>> \o WithoutFirstYear(Tail(list))

RECURSIVE WithoutYear(_)
\* [d for d in list if d != "year"]
WithoutYear(list) ==
    IF list = << >> THEN << >>
    ELSE (IF Head(list) # "year" THEN <<Head(list)>> ELSE << >>) \o WithoutYear(Tail(list))

\* x if x is not None else []
OrEmpty(opt) == IF Supplied(opt) THEN ValueOf(opt) ELSE << >>

\* mutant: a flow that is not one of the two of the API is replaced by the default
PayloadFlowChecked(args) ==
    [flow |-> IF args.flow \in {"import", "export"} THEN args.flow ELSE "import",
     monthDetail |-> args.monthDetail,
     period |-> args.period,
     filters |-> args.filters,
     details |-> WithoutYear(OrEmpty(args.details)),
     metrics |-> OrEmpty(args.metrics)]

\* the payload of dados_gerais and dados_municipio: filters goes out as it came in
Payload(args) ==
    [flow |-> args.flow,
     monthDetail |-> args.monthDetail,
     period |-> args.period,
     filters |-> args.filters,
     details |-> WithoutYear(OrEmpty(args.details)),
     metrics |-> OrEmpty(args.metrics)]

DadosGeraisRequest(args) ==
    Request("POST", <<COMEXSTAT_API_BASE, "/general">>, Some(Payload(args)), << >>,
            POST_TIMEOUT)

DadosMunicipioRequest(args) ==
    Request("POST", <<COMEXSTAT_API_BASE, "/cities">>, Some(Payload(args)), << >>,
            POST_TIMEOUT)

\* mutant: the paging parameters are forwarded for economic-blocks too
params_all_with_blocks ==
    {"product-categories", "ncm", "hs", "nbm", "classifications", "economic-blocks"}

\* the tables that take every parameter
params_all == {"product-categories", "ncm", "hs", "nbm", "classifications"}
\* the tables that take add, language and search only
params_limited == {"economic-blocks"}

\* query_params[name] = value when the argument is not None
Param(name, opt) == IF Supplied(opt) THEN <<<<name, ValueOf(opt)>>>> ELSE << >>

\* query_params of fetch_auxiliary_table, in insertion order
QueryParams(args) ==
    (IF args.table_name \in params_all \/ args.table_name \in params_limited
     THEN Param("add", args.add) \o Param("language", args.language)
          \o Param("search", args.search)
     ELSE << >>)
    \o (IF args.table_name \in params_all
        THEN Param("page", args.page) \o Param("perPage", args.perPage)
        ELSE << >>)

TableRequest(args) ==
    Request("GET", <<COMEXSTAT_API_BASE, "/tables/", args.table_name>>, Absent,
            QueryParams(args), TABLE_TIMEOUT)

\* mutant: the item lookup waits as long as the table lookup
ItemRequestLongTimeout(args) ==
    Request("GET",
            <<COMEXSTAT_API_BASE, "/tables/", args.table_name, "/", ToString(args.item_id)>>,
            Absent, << >>, TABLE_TIMEOUT)

ItemRequest(args) ==
    Request("GET",
            <<COMEXSTAT_API_BASE, "/tables/", args.table_name, "/", ToString(args.item_id)>>,
            Absent, << >>, ITEM_TIMEOUT)

---------------------------------------------------------------------------
(* comexstat.py: what the upstream answers and what the tools make of it *)

\* an answer of the upstream: a response with its status and body, or no
\* response at all (httpx raises a RequestError: connection failure, timeout)
Response200(body) == [kind |-> "response", status |-> 200, body |-> body]
ErrorStatus(status) == [kind |-> "response", status |-> status, body |-> NotJson]
NoResponse(kind) == [kind |-> kind, status |-> 0, body |-> NotJson]
NoUpstream == NoResponse("")

\* client.post / client.get, response.raise_for_status(), response.json()
ResponseJson(u) ==
    IF u.kind # "response" THEN Raised("RequestError")
    ELSE IF u.status >= 400 THEN Raised("HTTPStatusError")
    ELSE IF u.body.is = "not_json" THEN Raised("JSONDecodeError")
    ELSE Returned(u.body)

\* mutant: the exception is logged and raised again
TryReraise(attempt) == attempt

\* mutant: the handlers catch the exceptions of httpx only
CaughtHttpxOnly(e) == e \in {"HTTPStatusError", "RequestError"}

\* what the calls of a tool raise: all of them are subclasses of Exception
Exceptions == {"HTTPStatusError", "RequestError", "JSONDecodeError", "AttributeError"}

\* except httpx.HTTPStatusError, except httpx.RequestError, except Exception
Caught(e) == e \in {"HTTPStatusError", "RequestError"} \cup Exceptions

\* the handler that logs the exception e
Handler(e) ==
    CASE e = "HTTPStatusError" -> "http_error"
      [] e = "RequestError" -> "request_error"
      [] OTHER -> "unexpected"

\* the try statement of the three fetching functions: a caught exception is
\* logged and the function goes on to return None
Try(attempt) ==
    IF attempt.raised # "" /\ Caught(attempt.raised) THEN Returned(None) ELSE attempt

TryLog(attempt) ==
    IF attempt.raised = "" THEN "ok"
    ELSE IF Caught(attempt.raised) THEN Handler(attempt.raised)
    ELSE "raised"

fetch_comexstat_data(u) == Try(ResponseJson(u))

\* data.get("data", {}).get("list"), outside any try statement
DataList(data) ==
    LET inner == Get(data, "data", JDict(<< >>))
    IN  IF inner.raised # "" THEN inner ELSE Get(inner.value, "list", None)

\* what dados_gerais and dados_municipio return for the fetched data
DadosReturn(fetched) ==
    IF fetched.raised # "" THEN fetched
    ELSE IF Truthy(fetched.value) THEN DataList(fetched.value)
    ELSE Returned(None)

\* data.get("data").get("list"), inside the try statement of fetch_auxiliary_table
TableList(data) ==
    LET inner == Get(data, "data", None)
    IN  IF inner.raised # "" THEN inner ELSE Get(inner.value, "list", None)

TableAttempt(u) ==
    LET json == ResponseJson(u)
    IN  IF json.raised # "" THEN json ELSE TableList(json.value)

\* item_data of fetch_single_item_detail
ItemData(data) ==
    IF IsDict(data)
    THEN IF HasKey(data, "data") /\ IsDict(Item(data, "data"))
         THEN Item(data, "data")
         ELSE data
    ELSE None

ItemAttempt(u) ==
    LET json == ResponseJson(u)
    IN  IF json.raised # "" THEN json
        ELSE IF Truthy(ItemData(json.value)) THEN Returned(ItemData(json.value))
        ELSE Returned(None)

\* mutant: a 404 is logged as any other error status
ItemLogGeneric(u) ==
    LET attempt == ItemAttempt(u)
    IN  IF attempt.raised = "" THEN (IF attempt.value.is = "null" THEN "no_item" ELSE "ok")
        ELSE TryLog(attempt)

\* the branch of fetch_single_item_detail that logs the outcome
ItemLog(u) ==
    LET attempt == ItemAttempt(u)
    IN  IF attempt.raised = "" THEN (IF attempt.value.is = "null" THEN "no_item" ELSE "ok")
        ELSE IF attempt.raised = "HTTPStatusError" /\ Caught(attempt.raised)
                /\ u.status = 404
        THEN "not_found"
        ELSE TryLog(attempt)

---------------------------------------------------------------------------
(* comexstat.py: the arguments of the tools *)

\* lists of details and of filters a call is given
MaxDetails == 3
MaxFilters == 2

DefaultPeriod == [from |-> "2024-01", to |-> "2024-12"]

\* the arguments of a tool invocation: the parameters of the four tools
Args(flow, filters, details, metrics, table_name, add, language, page, perPage, search, item_id) ==
    [flow |-> flow, monthDetail |-> FALSE, period |-> DefaultPeriod, filters |-> filters,
     details |-> details, metrics |-> metrics, table_name |-> table_name, add |-> add,
     language |-> language, page |-> page, perPage |-> perPage, search |-> search,
     item_id |-> item_id]

NoArgs == Args("", Absent, Absent, Absent, "", Absent, Absent, Absent, Absent, Absent, 0)

DadosArgs(flow, filters, details, metrics) ==
    Args(flow, filters, details, metrics, "", Absent, Absent, Absent, Absent, Absent, 0)

TableArgs(table_name, add, language, page, perPage, search) ==
    Args("", Absent, Absent, Absent, table_name, add, language, page, perPage, search, 0)

ItemArgs(table_name, item_id) ==
    Args("", Absent, Absent, Absent, table_name, Absent, Absent, Absent, Absent, Absent,
         item_id)

Call(tool, args) == [tool |-> tool, args |-> args]

\* the lists over S of length at most n
Lists(S, n) == {<< >>} \cup SeqsUpTo(S, n)

\* an argument that may be None
Optional(S) == {Absent} \cup {Some(x) : x \in S}

DetailNames == {"year", "country", "state"}

Filter(name, values) == [filter |-> name, values |-> values]

FilterEntries == {Filter("year", <<"2023">>), Filter("country", <<"063">>)}

\* flow is a str parameter: the two values of the API and two others
Flows == {"import", "export", "both", ""}

DadosInputs ==
    {DadosArgs(flow, filters, details, metrics) :
        flow \in Flows,
        filters \in Optional(Lists(FilterEntries, MaxFilters)),
        details \in Optional(Lists(DetailNames, MaxDetails)),
        metrics \in Optional({<<"metricFOB">>})}

Tables ==
    {"product-categories", "ncm", "hs", "nbm", "classifications", "economic-blocks",
     "countries", "uf", "cities", "ways"}

TableInputs ==
    {TableArgs(table_name, add, language, page, perPage, search) :
        table_name \in Tables,
        add \in Optional({"x"}),
        language \in Optional({"en"}),
        page \in Optional({2}),
        perPage \in Optional({5}),
        search \in Optional({"soja"})}

ItemInputs == {ItemArgs(table_name, item_id) : table_name \in {"countries", "ncm"},
                                                item_id \in {105, 999}}

\* the rows of a table
Rows == JList(<<JDict(<<<<"id", JNum(105)>>>>)>>)

\* response bodies: not JSON, and JSON of the expected and of other shapes
Bodies ==
    { NotJson,
      None,
      JNum(0),
      JList(<<JNum(1)>>),
      JDict(<< >>),
      JDict(<<<<"id", JNum(105)>>>>),
      JDict(<<<<"data", None>>>>),
      JDict(<<<<"data", JDict(<<<<"id", JNum(105)>>>>)>>>>),
      JDict(<<<<"data", JDict(<<<<"list", Rows>>>>)>>>>) }

Upstreams ==
    {NoResponse("connect_error"), NoResponse("timeout")}
    \cup {ErrorStatus(status) : status \in {404, 500}}
    \cup {Response200(body) : body \in Bodies}

---------------------------------------------------------------------------
(* The Streamlit script: the history and the handled input *)

Entry(role, content) == [role |-> role, content |-> content]

RECURSIVE OldHistory(_)
\* a history of k earlier turns
OldHistory(k) ==
    IF k = 0 THEN << >>
    ELSE OldHistory(k - 1) \o <<Entry("user", <<"q0">>), Entry("assistant", <<"a0">>)>>

\* the response for a returned value, in the first call and in the retry
Response(returned_value, retrying) ==
    IF Strip(returned_value) = << >>
    THEN IF retrying
         THEN <<"Error: Agent returned an empty response on retry.">>
         ELSE <<"Error: Agent returned an empty response.">>
    ELSE Strip(returned_value)

\* what asyncio.run raises before the coroutine runs
RunErrors == {"running_loop", "runtime", "other"}

\* the response of the handler of an exception of asyncio.run
RunErrorResponse(kind, e, retrying) ==
    IF retrying
    THEN <<"An error occurred even after applying nest_asyncio: ", e>>
    ELSE IF kind = "runtime"
    THEN <<"A runtime error occurred: ", e>>
    ELSE <<"An unexpected error occurred: ", e>>

NestAsyncioMissing ==
    <<"Error: nest_asyncio not installed. Cannot run async agent in this Streamlit context.">>

---------------------------------------------------------------------------
(* Two sessions of the script at once: each runs the script in its own       *)
(* thread, with its own call of run_agent_async                              *)

\* the sessions that run at the same time
Turns == {1, 2}

MODEL_NAME == "gpt-4.1-mini-2025-04-14"

\* the cache of st.cache_resource before the first get_model()
NotLoaded == [loaded |-> FALSE, model_name |-> "", temperature |-> 0, tools |-> FALSE]

\* ChatOpenAI(model=MODEL_NAME, temperature=0.0)
ChatOpenAI == [loaded |-> TRUE, model_name |-> MODEL_NAME, temperature |-> 0, tools |-> FALSE]

\* get_model() under st.cache_resource: built by the first call, the same object afterwards
get_model(cached) == IF cached.loaded THEN cached ELSE ChatOpenAI

\* model.bind_tools(tools): a new runnable, the model is left as it is
bind_tools(m) == [m EXCEPT !.tools = TRUE]

\* a session at the start of a script run, with the locals of its call of
\* run_agent_async as they are before the call
FreshTurn(user_query) ==
    [pc |-> "start",
     user_query |-> user_query,
     session |-> "none",
     model_with_tools |-> NotLoaded,
     messages |-> << >>,
     agent_result |-> <<"Error: Agent execution did not complete as expected.">>,
     heard |-> << >>]

\* mutant: the conversation is kept in one place for all sessions
OwnShared(t) == 1

\* where the conversation of turn t is kept: agent_input and the state of
\* app.ainvoke are locals of the call
Own(t) == t

\* what a run gets from outside: an assistant message of the model, the
\* messages of the tool node, an exception, or the return of ainvoke
Heard(kind, message, outs, e) == [kind |-> kind, message |-> message, outputs |-> outs, e |-> e]

\* one step of the graph run on what came in
GraphStep(s, in) ==
    CASE in.kind = "ai" ->
            LET msgs == AddMessages(s.messages, CallModelOutput(in.message))
            IN  [pc |-> AfterAgent(msgs), messages |-> msgs, agent_result |-> s.agent_result]
      [] in.kind = "tools" ->
            [pc |-> "agent",
             messages |-> AddMessages(s.messages, ToolNodeOutput(in.outputs)),
             agent_result |-> s.agent_result]
      [] in.kind = "raise" ->
            [pc |-> "return", messages |-> s.messages, agent_result |-> AinvokeError(in.e)]
      [] OTHER ->
            [pc |-> "return", messages |-> s.messages,
             agent_result |-> ExtractResult(s.messages)]

RECURSIVE GraphRun(_, _)
GraphRun(s, heard) ==
    IF heard = << >> THEN s ELSE GraphRun(GraphStep(s, Head(heard)), Tail(heard))

\* the run of one turn on its own that gets heard from outside
Alone(user_query, heard) ==
    GraphRun([pc |-> "agent", messages |-> AgentInput(user_query),
              agent_result |-> <<"Error: Agent execution did not complete as expected.">>],
             heard)

\* the request of the engine in the turns
TurnCalls == {[name |-> "fetch_auxiliary_table", args |-> "table_name=countries"]}

\* what the engine may answer in a turn: a final answer, or one more request
\* while fewer than MaxCalls were issued
TurnResponses(state) ==
    {AIMessage(<<"a">>, << >>)}
    \cup (IF Len(IssuedCalls(state)) < MaxCalls
          THEN {AIMessage(<< >>, WithIds(<<c>>, Len(IssuedCalls(state)))) : c \in TurnCalls}
          ELSE {})

---------------------------------------------------------------------------
InitChat ==
    /\ history \in {OldHistory(k) : k \in 0..MaxHistory}
    /\ prompt = << >>
    /\ pc = "input"
    /\ turns = [t \in Turns |-> FreshTurn(<< >>)]
    /\ model = NotLoaded
    /\ handle_tool_errors \in BOOLEAN
    /\ messages = << >>
    /\ prompt_value = << >>
    /\ outputs = << >>
    /\ nInvoke = 0
    /\ dispatched = << >>
    /\ step = 0
    /\ agent_result = <<"Error: Agent execution did not complete as expected.">>
    /\ setup_outcome = Awaited("", "")
    /\ runs = 0
    /\ retry = FALSE
    /\ response = << >>
    /\ exchanged = << >>

\* the chat application before an input, the tool server before any invocation
Init ==
    /\ InitChat
    /\ served = Call("", NoArgs)
    /\ request = NoRequest
    /\ upstream = NoUpstream
    /\ returned = Returned(None)
    /\ log = ""

\* the state of the agent run
agent == <<handle_tool_errors, messages, prompt_value, outputs, nInvoke,
           dispatched, step, agent_result, setup_outcome>>

\* st.chat_input gives a prompt: it is appended to the history
SubmitPrompt(p) ==
    /\ pc = "input"
    /\ prompt' = p
    /\ history' = Append(history, Entry("user", p))
    /\ pc' = "run"
    /\ UNCHANGED <<sessions, exchanged, client, agent, script>>

\* the response after the handlers: one that is still empty gets the default text
Captured(r) ==
    IF r = << >> THEN <<"An error occurred, and no specific message was captured.">> ELSE r

\* mutant: the response of an exception handler is shown but not appended
FinishUnlessRaised(r) ==
    /\ response' = Captured(r)
    /\ history' = IF pc = "return" THEN Append(history, Entry("assistant", Captured(r)))
                  ELSE history
    /\ pc' = "done"

\* the script appends its response to the history: the input is handled
Finish(r) ==
    /\ response' = Captured(r)
    /\ history' = Append(history, Entry("assistant", Captured(r)))
    /\ pc' = "done"

\* asyncio.run(run_agent_async(model, prompt)) starts the coroutine
AsyncioRun ==
    /\ pc = "run"
    /\ runs' = runs + 1
    /\ pc' = "connect"
    /\ UNCHANGED <<sessions, exchanged, client, agent, history, prompt, retry, response>>

\* asyncio.run raises instead: the first call is retried under nest_asyncio
\* when a loop is already running, every other exception ends the handling
AsyncioRunRaises(kind, e) ==
    /\ pc = "run"
    /\ IF kind = "running_loop" /\ ~retry
       THEN pc' = "nest_asyncio" /\ UNCHANGED <<history, response>>
       ELSE Finish(RunErrorResponse(kind, e, retry))
    /\ UNCHANGED <<sessions, exchanged, client, agent, prompt, runs, retry>>

\* import nest_asyncio; nest_asyncio.apply(); then the second asyncio.run
NestAsyncio(installed) ==
    /\ pc = "nest_asyncio"
    /\ IF installed
       THEN retry' = TRUE /\ pc' = "run" /\ UNCHANGED <<history, response>>
       ELSE Finish(NestAsyncioMissing) /\ UNCHANGED retry
    /\ UNCHANGED <<sessions, exchanged, client, agent, prompt, runs>>

\* the message of the RuntimeError of asyncio.run called under a running loop
RunningLoopText == "asyncio.run() cannot be called from a running event loop"

\* mutant: an exception with the message of the running loop is not turned into
\* the returned text but leaves run_agent_async and reaches the handler of the script
ReturnOrRaise(r) ==
    IF ~retry /\ \E i \in DOMAIN r : r[i] = RunningLoopText
    THEN pc' = "nest_asyncio" /\ UNCHANGED agent_result
    ELSE agent_result' = r /\ pc' = "return"

\* run_agent_async returns r
Return(r) ==
    /\ agent_result' = r
    /\ pc' = "return"

\* async with stdio_client(...), ClientSession(...)
Connect(outcome, e) ==
    /\ pc = "connect"
    /\ setup_outcome' = Awaited("connect", outcome)
    /\ IF outcome = "ok"
       THEN pc' = "initialize" /\ UNCHANGED agent_result
       ELSE Return(ConnectionError(outcome, e))
    /\ UNCHANGED <<sessions, exchanged, client, script, history, prompt, handle_tool_errors, messages, prompt_value,
                   outputs, nInvoke, dispatched, step>>

\* wait_for(session.initialize(), TOOL_LOAD_TIMEOUT)
Initialize(outcome, e) ==
    /\ pc = "initialize"
    /\ setup_outcome' = Awaited("initialize", outcome)
    /\ IF outcome = "ok"
       THEN pc' = "load_tools" /\ UNCHANGED agent_result
       ELSE Return(InitializeError(outcome, e))
    /\ UNCHANGED <<sessions, exchanged, client, script, history, prompt, handle_tool_errors, messages, prompt_value,
                   outputs, nInvoke, dispatched, step>>

\* wait_for(load_mcp_tools(session), TOOL_LOAD_TIMEOUT), bind_tools, graph.compile()
LoadTools(outcome, e) ==
    /\ pc = "load_tools"
    /\ setup_outcome' = Awaited("load_tools", outcome)
    /\ IF outcome = "ok"
       THEN pc' = "invoke" /\ UNCHANGED agent_result
       ELSE Return(LoadError(outcome, e))
    /\ UNCHANGED <<sessions, exchanged, client, script, history, prompt, handle_tool_errors, messages, prompt_value,
                   outputs, nInvoke, dispatched, step>>

\* app.ainvoke(agent_input): the input is written to the state, the entry point is "agent"
StartGraph ==
    /\ pc = "invoke"
    /\ messages' = AddMessages(<< >>, AgentInput(prompt))
    /\ pc' = "agent"
    /\ UNCHANGED <<sessions, exchanged, client, script, history, prompt, setup_outcome, handle_tool_errors, prompt_value, outputs,
                   nInvoke, dispatched, step, agent_result>>

\* node "agent" (call_model) and its conditional edge (should_continue)
CallModel(ai_message) ==
    /\ pc = "agent"
    /\ ~RecursionReached
    /\ prompt_value' = AgentPrompt(messages)
    /\ nInvoke' = nInvoke + 1
    /\ messages' = AddMessages(messages, CallModelOutput(ai_message))
    /\ step' = step + 1
    /\ pc' = AfterAgent(messages')
    /\ UNCHANGED <<sessions, exchanged, client, script, history, prompt, setup_outcome, handle_tool_errors, outputs, dispatched,
                   agent_result>>

\* model_with_tools.invoke raises: ainvoke raises, caught at the end of run_agent_async
CallModelFails(e) ==
    /\ pc = "agent"
    /\ ~RecursionReached
    /\ prompt_value' = AgentPrompt(messages)
    /\ nInvoke' = nInvoke + 1
    /\ Return(AinvokeError(e))
    /\ UNCHANGED <<sessions, exchanged, client, script, history, prompt, setup_outcome, handle_tool_errors, messages, outputs,
                   dispatched, step>>

\* node "action" (ToolNode) starts: every request of the last message is dispatched
ToolNodeStart ==
    /\ pc = "action"
    /\ ~RecursionReached
    /\ LET calls == ToolNodeCalls(messages)
       IN  /\ dispatched' = dispatched \o [i \in 1..Len(calls) |-> calls[i].id]
           /\ outputs' = [i \in 1..Len(calls) |-> Pending]
    /\ pc' = "tools"
    /\ UNCHANGED <<sessions, exchanged, client, script, history, prompt, setup_outcome, handle_tool_errors, messages, prompt_value,
                   nInvoke, step, agent_result>>

\* the tool of request i returns
ToolReturns(i, payload) ==
    /\ pc = "tools"
    /\ i \in DOMAIN outputs
    /\ outputs[i] = Pending
    /\ outputs' = [outputs EXCEPT ![i] = ToolSuccess(ToolNodeCalls(messages)[i], payload)]
    /\ UNCHANGED <<sessions, exchanged, client, script, history, prompt, setup_outcome, pc, handle_tool_errors, messages, prompt_value,
                   nInvoke, dispatched, step, agent_result>>

\* the tool of request i raises: the node turns it into an error message, or
\* lets it through and ainvoke raises
ToolRaises(i, e) ==
    /\ pc = "tools"
    /\ i \in DOMAIN outputs
    /\ outputs[i] = Pending
    /\ IF handle_tool_errors
       THEN /\ outputs' = [outputs EXCEPT ![i] = ToolError(ToolNodeCalls(messages)[i], e)]
            /\ UNCHANGED <<pc, agent_result>>
       ELSE /\ Return(AinvokeError(e))
            /\ UNCHANGED outputs
    /\ UNCHANGED <<sessions, exchanged, client, script, history, prompt, setup_outcome, handle_tool_errors, messages, prompt_value,
                   nInvoke, dispatched, step>>

\* every request has its message: the node's output is added, edge action -> agent
ToolNodeFinish ==
    /\ pc = "tools"
    /\ \A i \in DOMAIN outputs : outputs[i] # Pending
    /\ messages' = AddMessages(messages, ToolNodeOutput(outputs))
    /\ outputs' = << >>
    /\ step' = step + 1
    /\ pc' = "agent"
    /\ UNCHANGED <<sessions, exchanged, client, script, history, prompt, setup_outcome, handle_tool_errors, prompt_value, nInvoke,
                   dispatched, agent_result>>

\* a node is due after RecursionLimit super-steps: ainvoke raises
GraphRecursion ==
    /\ pc \in {"agent", "action"}
    /\ RecursionReached
    /\ Return(AinvokeError(GraphRecursionError))
    /\ UNCHANGED <<sessions, exchanged, client, script, history, prompt, setup_outcome, handle_tool_errors, messages, prompt_value,
                   outputs, nInvoke, dispatched, step>>

\* ainvoke returned the final state: the result is extracted and returned
ReturnResult ==
    /\ pc = "end"
    /\ Return(ExtractResult(messages))
    /\ UNCHANGED <<sessions, exchanged, client, script, history, prompt, setup_outcome, handle_tool_errors, messages, prompt_value,
                   outputs, nInvoke, dispatched, step>>

\* asyncio.run returned: the script shows the response and appends it to the history
Respond ==
    /\ pc = "return"
    /\ Finish(Response(agent_result, retry))
    /\ UNCHANGED <<sessions, exchanged, client, agent, prompt, runs, retry>>

Setup ==
    \/ \E p \in Prompts : SubmitPrompt(p)
    \/ AsyncioRun
    \/ \E k \in RunErrors, e \in Errors : AsyncioRunRaises(k, e)
    \/ \E b \in BOOLEAN : NestAsyncio(b)
    \/ \E o \in ConnectOutcomes, e \in Errors : Connect(o, e)
    \/ \E o \in SetupOutcomes, e \in Errors : Initialize(o, e)
    \/ \E o \in LoadOutcomes, e \in Errors : LoadTools(o, e)
    \/ StartGraph

\* a turn in which the engine issues at most MaxCalls requests: the recursion
\* limit is out of reach (2 * MaxCalls + 1 super-steps)
Next ==
    \/ Setup
    \/ \E r \in Responses(messages) : CallModel(r)
    \/ \E e \in Errors : CallModelFails(e)
    \/ ToolNodeStart
    \/ \E i \in DOMAIN outputs, p \in Payloads : ToolReturns(i, p)
    \/ \E i \in DOMAIN outputs, e \in Errors : ToolRaises(i, e)
    \/ ToolNodeFinish
    \/ ReturnResult
    \/ Respond

Spec == Init /\ [][Next]_vars

\* a turn with an engine that asks for a tool call in every response
NextLoop ==
    \/ Setup
    \/ \E r \in LoopResponses(messages) : CallModel(r)
    \/ ToolNodeStart
    \/ \E i \in DOMAIN outputs, p \in Payloads : ToolReturns(i, p)
    \/ ToolNodeFinish
    \/ GraphRecursion
    \/ Respond

SpecLoop == Init /\ [][NextLoop]_vars

---------------------------------------------------------------------------
(* comexstat.py: the four tools, each handling the invocation served       *)
(* against the answer upstream                                               *)

\* the variables of the chat application
chat == <<agent, script, history, prompt, pc>>

\* the tool server handles the pending invocation: it sends the request, gets
\* the answer of the upstream and gives its outcome to the caller
Serve(tool, req, outcome, branch) ==
    /\ served.tool = tool
    /\ log = ""
    /\ request' = req
    /\ returned' = outcome
    /\ log' = branch
    /\ UNCHANGED <<served, upstream, chat, exchanged, sessions>>

\* the request a tool sends for its arguments
RequestOf(tool, args) ==
    CASE tool = "dados_gerais" -> DadosGeraisRequest(args)
      [] tool = "dados_municipio" -> DadosMunicipioRequest(args)
      [] tool = "fetch_auxiliary_table" -> TableRequest(args)
      [] OTHER -> ItemRequest(args)

\* what a tool gives to its caller when the upstream answers u
Outcome(tool, u) ==
    CASE tool \in {"dados_gerais", "dados_municipio"} -> DadosReturn(fetch_comexstat_data(u))
      [] tool = "fetch_auxiliary_table" -> Try(TableAttempt(u))
      [] OTHER -> Try(ItemAttempt(u))

dados_gerais ==
    Serve("dados_gerais", RequestOf("dados_gerais", served.args),
          Outcome("dados_gerais", upstream), TryLog(ResponseJson(upstream)))

dados_municipio ==
    Serve("dados_municipio", RequestOf("dados_municipio", served.args),
          Outcome("dados_municipio", upstream), TryLog(ResponseJson(upstream)))

fetch_auxiliary_table ==
    Serve("fetch_auxiliary_table", RequestOf("fetch_auxiliary_table", served.args),
          Outcome("fetch_auxiliary_table", upstream), TryLog(TableAttempt(upstream)))

fetch_single_item_detail ==
    Serve("fetch_single_item_detail", RequestOf("fetch_single_item_detail", served.args),
          Outcome("fetch_single_item_detail", upstream), ItemLog(upstream))

\* the tool server on its own
NextClient ==
    \/ dados_gerais
    \/ dados_municipio
    \/ fetch_auxiliary_table
    \/ fetch_single_item_detail

\* any invocation of a tool, against any answer of the upstream
Invocations ==
    {Call(tool, args) : tool \in {"dados_gerais", "dados_municipio"}, args \in DadosInputs}
    \cup {Call("fetch_auxiliary_table", args) : args \in TableInputs}
    \cup {Call("fetch_single_item_detail", args) : args \in ItemInputs}

InitClient ==
    /\ InitChat
    /\ history = << >>
    /\ handle_tool_errors
    /\ served \in Invocations
    /\ upstream \in Upstreams
    /\ request = NoRequest
    /\ returned = Returned(None)
    /\ log = ""

SpecClient == InitClient /\ [][NextClient]_vars

---------------------------------------------------------------------------
(* The tool node against the tool server: the tool of a request is the MCP   *)
(* tool of comexstat.py, and its result comes back as the content of the     *)
(* request's ToolMessage                                                      *)

\* the arguments the tool node hands to the tool of a request
ArgsOf(tool_call) ==
    CASE tool_call.args = "table_name=countries" ->
           TableArgs("countries", Absent, Absent, Absent, Absent, Absent)
      [] tool_call.args = "flow=export" -> DadosArgs("export", Absent, Absent, Absent)
      [] OTHER -> NoArgs

RECURSIVE Dumps(_)
\* the JSON text of a value
Dumps(v) ==
    LET RECURSIVE Each(_, _)
        Each(values, k) ==
            IF k > Len(values) THEN << >>
            ELSE (IF k > 1 THEN <<", ">> ELSE << >>)
                 \o (IF v.is = "dict"
                     THEN <<values[k][1], ": ">> \o Dumps(values[k][2])
                     ELSE Dumps(values[k]))
                 \o Each(values, k + 1)
    IN  CASE v.is = "null" -> <<"null">>
          [] v.is = "num" -> <<ToString(v.of[1])>>
          [] v.is = "list" -> <<"[">> \o Each(v.of, 1) \o <<"]">>
          [] OTHER -> <<"{">> \o Each(v.of, 1) \o <<"}">>

\* the content of the ToolMessage of a returned value: None comes back as no content
ToolContent(v) == IF v.is = "null" THEN << >> ELSE Dumps(v)

\* the ToolMessage of one request whose tool returned v
ToolResult(tool_call, v) ==
    ToolMessage(ToolContent(v), tool_call.id, tool_call.name, "success")

\* what the upstream answers to the request of a tool call of the turn
ToolUpstreams ==
    { Response200(JDict(<<<<"data", JDict(<<<<"list", Rows>>>>)>>>>)),
      ErrorStatus(500),
      NoResponse("timeout") }

\* one more exchange for the call id
Exchange(exchanges, id, x) ==
    IF id \in DOMAIN exchanges
    THEN [exchanges EXCEPT ![id] = Append(@, x)]
    ELSE (id :> <<x>>) @@ exchanges

\* the tool of request i runs in the tool server against an upstream that
\* answers u: what it returns becomes the request's message; what it raises is
\* turned into an error message by the node, or let through
ToolServes(i, u) ==
    /\ pc = "tools"
    /\ i \in DOMAIN outputs
    /\ outputs[i] = Pending
    /\ LET tool_call == ToolNodeCalls(messages)[i]
           outcome == Outcome(tool_call.name, u)
       IN  /\ exchanged' =
                 Exchange(exchanged, tool_call.id,
                          [request |-> RequestOf(tool_call.name, ArgsOf(tool_call)),
                           answer |-> u])
           /\ IF outcome.raised = ""
              THEN /\ outputs' = [outputs EXCEPT ![i] = ToolResult(tool_call, outcome.value)]
                   /\ UNCHANGED <<pc, agent_result>>
              ELSE IF handle_tool_errors
              THEN /\ outputs' = [outputs EXCEPT ![i] = ToolError(tool_call, outcome.raised)]
                   /\ UNCHANGED <<pc, agent_result>>
              ELSE /\ Return(AinvokeError(outcome.raised))
                   /\ UNCHANGED outputs
    /\ UNCHANGED <<sessions, client, script, history, prompt, setup_outcome, handle_tool_errors,
                   messages, prompt_value, nInvoke, dispatched, step>>

\* a turn whose tools are the tools of the server
NextTools ==
    \/ Setup
    \/ \E r \in Responses(messages) : CallModel(r)
    \/ ToolNodeStart
    \/ \E i \in DOMAIN outputs, u \in ToolUpstreams : ToolServes(i, u)
    \/ ToolNodeFinish
    \/ ReturnResult
    \/ Respond

\* the history plays no part in the tools: the turn is the first of the chat
InitTools == Init /\ history = << >>

SpecTools == InitTools /\ [][NextTools]_vars

---------------------------------------------------------------------------
(* Two sessions at once: the steps of each turn, in any interleaving *)

\* what turn t sees of its run
View(t) ==
    [pc |-> turns[t].pc, messages |-> turns[Own(t)].messages,
     agent_result |-> turns[t].agent_result]

\* turn t takes a step of its graph run on what came in
Take(t, in) ==
    LET new == GraphStep(View(t), in)
    IN  /\ turns' = [turns EXCEPT ![t].pc = new.pc,
                                  ![t].agent_result = new.agent_result,
                                  ![t].heard = Append(@, in),
                                  ![t].session = IF new.pc = "return" THEN "closed" ELSE @,
                                  ![Own(t)].messages = new.messages]
        /\ UNCHANGED <<model, exchanged, client, chat>>

\* the script run of the session: model = get_model()
TurnGetModel(t) ==
    /\ turns[t].pc = "start"
    /\ model' = get_model(model)
    /\ turns' = [turns EXCEPT ![t].pc = "input"]
    /\ UNCHANGED <<exchanged, client, chat>>

\* st.chat_input gives the session of turn t its prompt
TurnSubmit(t) ==
    /\ turns[t].pc = "input"
    /\ \E user_query \in Prompts :
          turns' = [turns EXCEPT ![t] = [FreshTurn(user_query) EXCEPT !.pc = "connect"]]
    /\ UNCHANGED <<model, exchanged, client, chat>>

\* run_agent_async up to ainvoke: the session, the bound model, the agent input
TurnSetup(t) ==
    /\ turns[t].pc = "connect"
    /\ turns' = [turns EXCEPT ![t].pc = "agent",
                              ![t].session = "open",
                              ![t].model_with_tools = bind_tools(model),
                              ![Own(t)].messages = AgentInput(turns[t].user_query)]
    /\ UNCHANGED <<model, exchanged, client, chat>>

TurnCallModel(t) ==
    /\ turns[t].pc = "agent"
    /\ \E ai_message \in TurnResponses(View(t).messages) :
          Take(t, Heard("ai", ai_message, << >>, ""))

TurnCallModelFails(t) ==
    /\ turns[t].pc = "agent"
    /\ \E e \in Errors : Take(t, Heard("raise", Pending, << >>, e))

\* the tool node runs the request of the last message through the session of the turn
TurnTools(t) ==
    /\ turns[t].pc = "action"
    /\ LET calls == ToolNodeCalls(View(t).messages)
       IN  \/ \E payload \in Payloads :
                 Take(t, Heard("tools", Pending,
                               [i \in DOMAIN calls |-> ToolSuccess(calls[i], payload)], ""))
           \/ \E e \in Errors :
                 IF handle_tool_errors
                 THEN Take(t, Heard("tools", Pending,
                                    [i \in DOMAIN calls |-> ToolError(calls[i], e)], ""))
                 ELSE Take(t, Heard("raise", Pending, << >>, e))

\* ainvoke returns and the result is extracted
TurnExtract(t) ==
    /\ turns[t].pc = "end"
    /\ Take(t, Heard("end", Pending, << >>, ""))

NextTurns ==
    \E t \in Turns :
        \/ TurnGetModel(t)
        \/ TurnSubmit(t)
        \/ TurnSetup(t)
        \/ TurnCallModel(t)
        \/ TurnCallModelFails(t)
        \/ TurnTools(t)
        \/ TurnExtract(t)

InitTurns ==
    /\ Init
    /\ history = << >>

SpecTurns == InitTurns /\ [][NextTurns]_vars

---------------------------------------------------------------------------
(* The extraction on its own: run_agent_async reads whatever final state    *)
(* ainvoke hands back, also those the graph never ends in                    *)

\* messages of a final state
MaxFinal == 3

FinalMessages ==
    {HumanMessage(<<"q1">>)}
    \cup {AIMessage(c, calls) :
            c \in Contents,
            calls \in {<< >>, <<[id |-> 1, name |-> "dados_gerais", args |-> "flow=export"]>>}}
    \cup {ToolMessage(<<"data">>, 1, "dados_gerais", "success"),
          ToolMessage(<<"Error: ", "boom", "\n Please fix your mistakes.">>, 1,
                      "dados_gerais", "error")}

FinalStates == Lists(FinalMessages, MaxFinal)

\* ainvoke has returned a final state
InitExtract ==
    /\ history = <<Entry("user", <<"q1">>)>>
    /\ prompt = <<"q1">>
    /\ pc = "end"
    /\ turns = [t \in Turns |-> FreshTurn(<< >>)]
    /\ model = NotLoaded
    /\ handle_tool_errors \in BOOLEAN
    /\ messages \in FinalStates
    /\ prompt_value = << >>
    /\ outputs = << >>
    /\ nInvoke = 0
    /\ dispatched = << >>
    /\ step = 0
    /\ agent_result = <<"Error: Agent execution did not complete as expected.">>
    /\ setup_outcome = Awaited("load_tools", "ok")
    /\ runs = 1
    /\ retry = FALSE
    /\ response = << >>
    /\ exchanged = << >>
    /\ served = Call("", NoArgs)
    /\ request = NoRequest
    /\ upstream = NoUpstream
    /\ returned = Returned(None)
    /\ log = ""

NextExtract ==
    \/ ReturnResult
    \/ Respond

SpecExtract == InitExtract /\ [][NextExtract]_vars

---------------------------------------------------------------------------
(* The retry of the script: a turn in which what is raised, by asyncio.run   *)
(* or inside the run, may carry the message of the running loop              *)

\* what is raised inside the run
RetryErrors == Errors \cup {RunningLoopText}

\* what asyncio.run raises: the RuntimeError of a running loop, another
\* RuntimeError, or an exception of another type with any message
RaisedByRun ==
    {<<"running_loop", RunningLoopText>>}
    \cup {<<"runtime", e>> : e \in Errors}
    \cup {<<"other", e>> : e \in RetryErrors}

NextRetry ==
    \/ \E p \in Prompts : SubmitPrompt(p)
    \/ AsyncioRun
    \/ \E raised \in RaisedByRun : AsyncioRunRaises(raised[1], raised[2])
    \/ \E b \in BOOLEAN : NestAsyncio(b)
    \/ \E o \in ConnectOutcomes, e \in RetryErrors : Connect(o, e)
    \/ \E o \in SetupOutcomes, e \in RetryErrors : Initialize(o, e)
    \/ \E o \in LoadOutcomes, e \in RetryErrors : LoadTools(o, e)
    \/ StartGraph
    \/ \E r \in Responses(messages) : CallModel(r)
    \/ \E e \in RetryErrors : CallModelFails(e)
    \/ ToolNodeStart
    \/ \E i \in DOMAIN outputs, p \in Payloads : ToolReturns(i, p)
    \/ \E i \in DOMAIN outputs, e \in RetryErrors : ToolRaises(i, e)
    \/ ToolNodeFinish
    \/ ReturnResult
    \/ Respond

SpecRetry == Init /\ [][NextRetry]_vars

---------------------------------------------------------------------------
(* Properties *)

IsPrefix(s, t) == Len(s) <= Len(t) /\ SubSeq(t, 1, Len(s)) = s

NoDuplicates(s) == \A i, j \in DOMAIN s : s[i] = s[j] => i = j

\* a last assistant message without tool calls
EndsWithAnswer(msgs) ==
    msgs # << >> /\ IsAI(Last(msgs)) /\ Last(msgs).tool_calls = << >>

\* every request of every assistant message of input has a later tool message with its id
Answered(input) ==
    \A j \in DOMAIN input :
        IsAI(input[j]) =>
            \A c \in DOMAIN input[j].tool_calls :
                \E k \in DOMAIN input :
                    /\ k > j
                    /\ IsTool(input[k])
                    /\ input[k].tool_call_id = input[j].tool_calls[c].id

\* C1: whenever the model is invoked, every tool-call request of every assistant
\* message of its input already has a tool message with the same call id after it.
C1_ResultsBeforeNextInvocation == nInvoke > 0 => Answered(prompt_value)

C1_Witness ==
    /\ nInvoke >= 2
    /\ \E j \in DOMAIN prompt_value : Len(prompt_value[j].tool_calls) >= 2

\* C2: in the conversation of a turn no two tool messages carry the same call id.
C2_AtMostOneResultPerCall ==
    \A j, k \in DOMAIN messages :
        (IsTool(messages[j]) /\ IsTool(messages[k])
         /\ messages[j].tool_call_id = messages[k].tool_call_id) => j = k

C2_Witness ==
    /\ Cardinality({j \in DOMAIN messages : IsTool(messages[j])}) >= 3
    /\ nInvoke >= 2

\* C3: every step leaves the messages already in the conversation in place: the
\* conversation before a step is a prefix of the conversation after it.
C3_AppendOnly == [][IsPrefix(messages, messages')]_vars

C3_Witness ==
    /\ Len(messages) >= 5
    /\ \E j \in DOMAIN messages : IsTool(messages[j])
    /\ EndsWithAnswer(messages)

\* C4: the input of every model invocation starts with the system message and
\* holds no other system message.
C4_SystemMessageOnceAndFirst ==
    nInvoke > 0 =>
        /\ prompt_value # << >>
        /\ prompt_value[1] = SystemMessage(CUSTOM_SYSTEM_PROMPT)
        /\ \A j \in DOMAIN prompt_value : prompt_value[j].type = "system" => j = 1

C4_Witness == nInvoke >= 2 /\ Len(prompt_value) >= 4

\* C5: whatever the history holds, the first model invocation of the turn gets
\* exactly the system message followed by the user query.
C5_FreshConversation ==
    nInvoke = 1 =>
        prompt_value = <<SystemMessage(CUSTOM_SYSTEM_PROMPT), HumanMessage(prompt)>>

C5_Witness == nInvoke = 1 /\ Len(history) >= 3 /\ pc # "return"

\* the audit entries of the requests calls, as the answer lists them
RECURSIVE AuditOf(_)
AuditOf(calls) ==
    IF calls = << >> THEN << >>
    ELSE <<"* **Tool:** ", Head(calls).name, "\n* **Arguments:** ", Head(calls).args>>
         \o (IF Len(calls) > 1 THEN <<"\n\n">> ELSE << >>)
         \o AuditOf(Tail(calls))

\* C6: a turn that ended with a final answer returns the (stripped) text of the
\* last assistant message, followed, when requests were issued, by the audit
\* block listing every request of every assistant message of the conversation
\* with its name and arguments, in message order then request order.
C6_AuditListsEveryCall ==
    (pc \in {"return", "done"} /\ EndsWithAnswer(messages)
     /\ Strip(Last(messages).content) # << >>) =>
        agent_result =
            Strip(Last(messages).content)
            \o (IF IssuedCalls(messages) = << >> THEN << >>
                ELSE <<"\n\n---\n**Tools Used:**\n">> \o AuditOf(IssuedCalls(messages)))

C6_Witness ==
    /\ pc = "return"
    /\ EndsWithAnswer(messages)
    /\ Last(messages).content = <<" ", "a", " ">>
    /\ nInvoke = 3
    /\ Len(IssuedCalls(messages)) = 3
    /\ IssuedCalls(messages)[1].name # IssuedCalls(messages)[2].name

\* C7: a final conversation whose last message is an assistant message without
\* tool calls and with empty or blank text gives the fixed notice, which is not blank.
C7_EmptyAnswerNotice ==
    (pc \in {"return", "done"} /\ EndsWithAnswer(messages)
     /\ \A i \in DOMAIN Last(messages).content : Last(messages).content[i] = " ") =>
        /\ agent_result = <<"Agent finished, but the final message was empty.">>
        /\ Strip(agent_result) # << >>

C7_Witness ==
    /\ pc = "return"
    /\ EndsWithAnswer(messages)
    /\ Last(messages).content = <<" ">>
    /\ nInvoke >= 2

\* C8 as stated: with an engine that asks for a tool call in every response the
\* loop, once started, is always deciding or executing.
C8_LoopsForever == nInvoke > 0 => pc \in {"agent", "action", "tools"}

\* C8 as amended: with an engine that asks for a tool call in every response the
\* graph never reaches END, and the run ends only when the recursion limit of the
\* graph runtime is reached: ainvoke raises and the turn returns its error string.
C8_LoopsUntilRecursionLimit ==
    /\ pc # "end"
    /\ step <= RecursionLimit
    /\ (nInvoke > 0 /\ pc \in {"return", "done"}) =>
          /\ step = RecursionLimit
          /\ agent_result =
                <<"An error occurred during agent execution (ainvoke): ",
                  "Recursion limit of 25 reached without hitting a stop condition.">>

C8_Witness == pc = "return" /\ nInvoke = 13 /\ Len(messages) = 26

\* C9: once the model returns an assistant message without tool calls the graph
\* ends at that step; no model invocation, no dispatch and no message follows,
\* and the next step returns the result extracted from that conversation.
C9_AnswerEndsLoop ==
    [][ /\ EndsWithAnswer(messages') => pc' \in {"end", "return", "done"}
        /\ EndsWithAnswer(messages) =>
              /\ nInvoke' = nInvoke
              /\ dispatched' = dispatched
              /\ messages' = messages
              /\ pc # "tools"
        /\ pc = "end" =>
              /\ EndsWithAnswer(messages)
              /\ pc' = "return"
              /\ agent_result' = ExtractResult(messages) ]_vars

C9_Witness ==
    /\ pc = "return"
    /\ EndsWithAnswer(messages)
    /\ nInvoke = 2
    /\ Len(dispatched) = 2

\* an error-status result is in the running batch or in the conversation: a tool raised
ToolFailed ==
    \/ \E i \in DOMAIN outputs : outputs[i].status = "error"
    \/ \E j \in DOMAIN messages : messages[j].status = "error"

\* C10 as stated: once a tool has raised, the turn is aborted: no model
\* invocation and no dispatch follows.
C10_AnyFailureAborts ==
    [][ToolFailed => (nInvoke' = nInvoke /\ dispatched' = dispatched)]_vars

\* C10 as amended: a raising model invocation, and a raising tool when the tool
\* node lets it through, abort the turn: the conversation is left as it is, the
\* result is the ainvoke error string, and afterwards nothing is invoked or
\* dispatched; a tool node that handles tool errors records the failure as an
\* error-status tool message instead; no request is ever dispatched twice.
C10_FailureAbortsUnlessHandled ==
    [][ /\ (pc \in {"agent", "tools"} /\ pc' = "return") =>
              /\ \E e \in Errors :
                    agent_result' =
                        <<"An error occurred during agent execution (ainvoke): ", e>>
              /\ messages' = messages
              /\ dispatched' = dispatched
              /\ outputs' = outputs
        /\ pc \in {"return", "done"} =>
              /\ nInvoke' = nInvoke
              /\ dispatched' = dispatched
              /\ messages' = messages
              /\ agent_result' = agent_result
        /\ ToolFailed' => handle_tool_errors
        /\ NoDuplicates(dispatched') ]_vars

\* a tool raised in a half-finished batch and the turn was abandoned
C10_Witness ==
    /\ pc = "return"
    /\ ~handle_tool_errors
    /\ \E i, j \in DOMAIN outputs : outputs[i] = Pending /\ outputs[j].status = "success"

\* where an execution of run_agent_async stands before it returns
RunPcs == {"connect", "initialize", "load_tools", "invoke", "agent", "action", "tools", "end"}

\* C11: an execution of run_agent_async ends only by returning, whatever fails
\* (connection, session setup or its deadline, the model invocation, a tool, the
\* recursion limit) and on normal completion, and what it returns is text that
\* is neither empty nor blank.
C11_AlwaysReturnsText ==
    [][ /\ pc \in RunPcs => pc' \in RunPcs \cup {"return"}
        /\ pc' = "return" =>
              /\ pc \in RunPcs
              /\ agent_result' # << >>
              /\ Strip(agent_result') # << >>
              /\ \A i \in DOMAIN agent_result' : agent_result'[i] # "" ]_vars

\* the second model invocation raised after a batch of two tool calls
C11_Witness ==
    /\ pc = "return"
    /\ nInvoke = 2
    /\ Len(dispatched) = 2
    /\ Len(messages) = 4
    /\ agent_result = <<"An error occurred during agent execution (ainvoke): ", "boom">>

\* C19: when session initialization or tool loading ran into its deadline
\* (TOOL_LOAD_TIMEOUT), the run has returned: the result is the setup error
\* that names the timeout of 45.0 s and the stage, the model was not invoked,
\* no tool was dispatched and the graph was not started.
C19_SetupDeadlineAborts ==
    (setup_outcome.outcome = "timeout"
     /\ setup_outcome.stage \in {"initialize", "load_tools"}) =>
        /\ pc \in {"return", "done"}
        /\ agent_result =
              <<"Error during setup: ", "Timeout (", "45", ".0s) occurred during ",
                IF setup_outcome.stage = "initialize"
                THEN "MCP session initialization." ELSE "tool loading.">>
        /\ nInvoke = 0
        /\ dispatched = << >>
        /\ messages = << >>
        /\ step = 0

\* the tool loading ran into its deadline and the script has shown the error
C19_Witness ==
    /\ pc = "done"
    /\ setup_outcome = [stage |-> "load_tools", outcome |-> "timeout"]
    /\ response[Len(response)] = "tool loading."

\* the tool server has handled the invocation served
Handled == log # ""

IsDados == served.tool \in {"dados_gerais", "dados_municipio"}

NotYear(d) == d # "year"

\* C13: for both statistics queries the details of the request body are the
\* details given with every "year" entry removed and the others in their
\* order; details that were not given are sent as the empty list.
C13_DetailsWithoutYear ==
    (Handled /\ IsDados) =>
        /\ request.method = "POST"
        /\ request.json # << >>
        /\ request.json[1].details =
              (IF served.args.details = << >> THEN << >>
               ELSE SelectSeq(served.args.details[1], NotYear))

C13_Witness ==
    /\ Handled
    /\ served.tool = "dados_municipio"
    /\ served.args.details = <<<<"country", "year", "state">>>>
    /\ request.json[1].details = <<"country", "state">>

\* C14 as stated: for both statistics queries no filter entry whose filter is
\* "year" is in the request body.
C14_NoYearFilterSent ==
    (Handled /\ IsDados /\ request.json[1].filters # << >>) =>
        \A i \in DOMAIN request.json[1].filters[1] :
            request.json[1].filters[1][i].filter # "year"

\* C15: fetch_auxiliary_table forwards add, language and search exactly when
\* they were given and the table is one of product-categories, ncm, hs, nbm,
\* classifications, economic-blocks; page and perPage exactly when they were
\* given and the table is one of the first five; each with the value given; for
\* every other table the query string is empty; and the call raises nothing.
C15_ParamsForwardedWhenSupported ==
    (Handled /\ served.tool = "fetch_auxiliary_table") =>
        LET a == served.args
            Sent(name) == \E i \in DOMAIN request.params : request.params[i][1] = name
            paging == a.table_name \in {"product-categories", "ncm", "hs", "nbm",
                                        "classifications"}
            text == paging \/ a.table_name = "economic-blocks"
        IN  /\ \A name \in {"add", "language", "search"} :
                  Sent(name) <=> (text /\ a[name] # << >>)
            /\ \A name \in {"page", "perPage"} :
                  Sent(name) <=> (paging /\ a[name] # << >>)
            /\ \A i \in DOMAIN request.params :
                  /\ request.params[i][1] \in {"add", "language", "search", "page", "perPage"}
                  /\ a[request.params[i][1]] = <<request.params[i][2]>>
            /\ \A i, j \in DOMAIN request.params :
                  request.params[i][1] = request.params[j][1] => i = j
            /\ ~text => request.params = << >>
            /\ returned.raised = ""

\* every argument given, for the table that takes only three of them
C15_Witness ==
    /\ Handled
    /\ served.tool = "fetch_auxiliary_table"
    /\ served.args.table_name = "economic-blocks"
    /\ served.args.page = <<2>>
    /\ served.args.perPage = <<5>>
    /\ request.params = <<<<"add", "x">>, <<"language", "en">>, <<"search", "soja">>>>

\* C16: an item lookup answered with status 404 is logged by the not-found
\* branch, one answered with another error status by the generic HTTP error
\* branch; both return None and raise nothing.
C16_NotFoundBranch ==
    (Handled /\ served.tool = "fetch_single_item_detail"
     /\ upstream.kind = "response" /\ upstream.status >= 400) =>
        /\ log = (IF upstream.status = 404 THEN "not_found" ELSE "http_error")
        /\ returned.raised = ""
        /\ returned.value.is = "null"

C16_Witness ==
    /\ served = Call("fetch_single_item_detail", ItemArgs("countries", 999))
    /\ upstream.status = 404
    /\ log = "not_found"
    /\ returned.value.is = "null"

\* C17: whichever of the four tools is invoked, when the request fails in
\* transport, or is answered with an error status, or with a body that is not
\* JSON, the tool returns None and raises nothing.
C17_NoDataOnFailure ==
    (Handled /\ (\/ upstream.kind # "response"
                 \/ upstream.status >= 400
                 \/ upstream.body.is = "not_json")) =>
        /\ returned.raised = ""
        /\ returned.value.is = "null"

\* a statistics query answered 200 with a body that is not JSON
C17_Witness ==
    /\ Handled
    /\ served.tool = "dados_gerais"
    /\ upstream.kind = "response"
    /\ upstream.status = 200
    /\ upstream.body.is = "not_json"
    /\ log = "unexpected"
    /\ returned.value.is = "null"

\* C20 as stated: the timeout of every data-fetch request is shorter than the
\* deadline of the session setup.
C20_FetchTimeoutsBelowDeadline == Handled => request.timeout < TOOL_LOAD_TIMEOUT

\* C20 as amended: the item lookup waits 30 s, which is shorter than the
\* deadline of the session setup (45 s); the two statistics queries and the
\* table lookup wait 60 s, which is longer.
C20_OnlyItemTimeoutBelowDeadline ==
    Handled =>
        /\ request.timeout = (IF served.tool = "fetch_single_item_detail" THEN 30 ELSE 60)
        /\ request.timeout < TOOL_LOAD_TIMEOUT <=> served.tool = "fetch_single_item_detail"

C20_Witness ==
    /\ Handled
    /\ served.tool = "fetch_single_item_detail"
    /\ request.timeout = 30
    /\ request.url[Len(request.url)] = "105"

\* the upstream answered with an error status, or not at all (request error, timeout)
TransportFailure(u) == u.kind # "response" \/ u.status >= 400

\* the tool-result of a call whose tool returned None
IsFailureMarker(m, id) ==
    /\ m.type = "tool"
    /\ m.tool_call_id = id
    /\ m.status = "success"
    /\ m.content = << >>

\* C12: exactly one HTTP request is made for a tool call; when it fails in
\* transport (error status, request error, timeout) the turn goes on: the call
\* gets a success-status tool message without content (the tool returned None)
\* in the running batch, which then is in the conversation, after which the
\* model is invoked again with that message in its input.
C12_TransportFailureGoesOn ==
    \A id \in DOMAIN exchanged :
        /\ Len(exchanged[id]) = 1
        /\ TransportFailure(exchanged[id][1].answer) =>
              \/ /\ pc = "tools"
                 /\ \E i \in DOMAIN outputs : IsFailureMarker(outputs[i], id)
              \/ /\ Cardinality({j \in DOMAIN messages :
                                    IsFailureMarker(messages[j], id)}) = 1
                 /\ \/ pc = "agent"
                    \/ /\ nInvoke >= 2
                       /\ \E j \in DOMAIN prompt_value :
                             IsFailureMarker(prompt_value[j], id)

\* the request of the first call timed out, the model was invoked again, issued
\* a second call and then answered
C12_Witness ==
    /\ pc = "return"
    /\ nInvoke = 3
    /\ DOMAIN exchanged = {1, 2}
    /\ exchanged[1][1].answer.kind = "timeout"
    /\ exchanged[1][1].request.method = "POST"
    /\ exchanged[2][1].answer.status = 200
    /\ IsFailureMarker(messages[3], 1)
    /\ EndsWithAnswer(messages)

\* C22: a model invocation that returns appends exactly the returned assistant
\* message, and the graph goes to the tool node if and only if that message
\* carries a tool call, to END otherwise; and the edge function says "continue"
\* for a state exactly when its last message is an assistant message with a
\* tool call: never for a state without messages or one ending in another
\* message (tried on every prefix of the conversation).
C22_ToolsIffToolCalls ==
    [][ /\ (pc = "agent" /\ pc' \in {"action", "end"}) =>
              /\ nInvoke' = nInvoke + 1
              /\ Len(messages') = Len(messages) + 1
              /\ SubSeq(messages', 1, Len(messages)) = messages
              /\ Last(messages').type = "ai"
              /\ pc' = "action" <=> Last(messages').tool_calls # << >>
              /\ pc' = "end" <=> Last(messages').tool_calls = << >>
        /\ pc' \in {"action", "end"} => pc = "agent"
        /\ \A k \in 0..Len(messages') :
              LET state == SubSeq(messages', 1, k)
              IN  /\ should_continue(state) \in {"continue", "end"}
                  /\ should_continue(state) = "continue" <=>
                        /\ k > 0
                        /\ state[k].type = "ai"
                        /\ state[k].tool_calls # << >> ]_vars

\* the second invocation returned a batch of two requests after a first batch
C22_Witness ==
    /\ pc = "action"
    /\ nInvoke = 2
    /\ Len(Last(messages).tool_calls) = 2
    /\ \E j \in DOMAIN messages : IsTool(messages[j])

\* C23: while a batch runs, whatever the order in which its calls complete,
\* the result of request i carries the id and the tool name of request i and
\* the conversation does not change; when the batch is done the tool node
\* appends exactly one tool message per request of the batch, in request
\* order, and nothing else.
C23_OneResultPerRequestInOrder ==
    [][ /\ pc' = "tools" =>
              LET calls == Last(messages').tool_calls
              IN  /\ DOMAIN outputs' = DOMAIN calls
                  /\ \A i \in DOMAIN outputs' :
                        \/ outputs'[i] = Pending
                        \/ /\ outputs'[i].type = "tool"
                           /\ outputs'[i].tool_call_id = calls[i].id
                           /\ outputs'[i].name = calls[i].name
        /\ (pc = "tools" /\ pc' \in {"tools", "return"}) => messages' = messages
        /\ (pc = "tools" /\ pc' = "agent") =>
              LET calls == Last(messages).tool_calls
                  n == Len(messages)
              IN  /\ Len(messages') = n + Len(calls)
                  /\ SubSeq(messages', 1, n) = messages
                  /\ \A i \in DOMAIN calls :
                        /\ messages'[n + i].type = "tool"
                        /\ messages'[n + i].status \in {"success", "error"}
                        /\ messages'[n + i].tool_call_id = calls[i].id
                        /\ messages'[n + i].name = calls[i].name ]_vars

\* the second request of a batch of two different tools completed before the first
C23_Witness ==
    /\ pc = "tools"
    /\ Len(outputs) = 2
    /\ outputs[1] = Pending
    /\ outputs[2].status = "success"
    /\ Last(messages).tool_calls[1].name # Last(messages).tool_calls[2].name

\* a call of the running batch has not completed
Outstanding == \E i \in DOMAIN outputs : outputs[i] = Pending

\* C24: the model is invoked one call at a time, only when no batch is
\* running, and only at the start of the turn or right after the results of a
\* batch; a batch is dispatched only right after an assistant message with tool
\* calls and when no batch is running: invocations and batches alternate,
\* starting with an invocation.
C24_EngineAndToolsAlternate ==
    [][ /\ nInvoke' # nInvoke =>
              /\ nInvoke' = nInvoke + 1
              /\ outputs = << >>
              /\ dispatched' = dispatched
              /\ messages # << >>
              /\ \/ nInvoke = 0 /\ messages = <<HumanMessage(prompt)>>
                 \/ nInvoke > 0 /\ Last(messages).type = "tool"
        /\ dispatched' # dispatched =>
              /\ outputs = << >>
              /\ nInvoke' = nInvoke
              /\ nInvoke > 0
              /\ Last(messages).type = "ai"
              /\ Len(dispatched') = Len(dispatched) + Len(Last(messages).tool_calls)
              /\ Last(messages).tool_calls # << >>
        /\ Outstanding => nInvoke' = nInvoke /\ dispatched' = dispatched ]_vars

\* three invocations with two batches between them
C24_Witness ==
    /\ nInvoke = 3
    /\ Len(messages) = 6
    /\ messages[2].type = "ai" /\ messages[3].type = "tool"
    /\ messages[4].type = "ai" /\ messages[5].type = "tool"
    /\ messages[6].type = "ai"

\* the result has been extracted from the final state
Extracted == pc \in {"return", "done"}

\* the returned text holds the audit block
HasAuditBlock(text) ==
    \E i \in DOMAIN text : text[i] \in {"\n\n---\n**Tools Used:**\n", "* **Tool:** "}

\* C25: for a final state whose last message is an assistant message with tool
\* calls the result is the planning notice, whatever the text of that message;
\* the text is not in the result and there is no audit block.
C25_PlanningNotice ==
    (Extracted /\ messages # << >> /\ Last(messages).type = "ai"
     /\ Last(messages).tool_calls # << >>) =>
        /\ agent_result = <<"Agent finished unexpectedly while planning to use tools.">>
        /\ \A i \in DOMAIN Last(messages).content :
              \A j \in DOMAIN agent_result : agent_result[j] # Last(messages).content[i]
        /\ ~HasAuditBlock(agent_result)

\* the last message has both text and a tool call
C25_Witness ==
    /\ pc = "done"
    /\ Len(messages) = 2
    /\ Last(messages).type = "ai"
    /\ Last(messages).content = <<"a">>
    /\ Last(messages).tool_calls # << >>
    /\ response = <<"Agent finished unexpectedly while planning to use tools.">>

\* C26: for a final state whose last message is a tool message the result
\* names the tool: with status "error" it is the tool-execution-failed text
\* with the content of the message, otherwise the no-final-summary text; the
\* two differ and neither holds an audit block.
C26_ToolResultLast ==
    (Extracted /\ messages # << >> /\ Last(messages).type = "tool") =>
        LET m == Last(messages)
            failed == <<"An error occurred during tool execution: ", "Tool ", m.name,
                        " failed: ">> \o m.content
            unfinished == <<"Agent finished after using tool ", m.name,
                            ", but did not provide a final summary.">>
        IN  /\ agent_result = (IF m.status = "error" THEN failed ELSE unfinished)
            /\ failed # unfinished
            /\ ~HasAuditBlock(agent_result)

\* an error-status tool message after an assistant message that asked for the tool
C26_Witness ==
    /\ pc = "return"
    /\ Len(messages) = 3
    /\ messages[2].tool_calls # << >>
    /\ Last(messages).status = "error"
    /\ agent_result[1] = "An error occurred during tool execution: "
    /\ agent_result[3] = "dados_gerais"

\* the texts of the two guards of the extraction start with these pieces
GuardPieces ==
    {"Agent finished unexpectedly while planning to use tools.",
     "An error occurred during tool execution: ",
     "Agent finished after using tool "}

\* C28: when the graph has ended (ainvoke returns its final state) the last
\* message is an assistant message without tool calls, and no result of a run
\* is the text of the guard for a last message with tool calls or of the guard
\* for a last tool message.
C28_GraphEndsWithAnswer ==
    /\ pc = "end" =>
          /\ messages # << >>
          /\ Last(messages).type = "ai"
          /\ Last(messages).tool_calls = << >>
    /\ \A i \in DOMAIN agent_result : agent_result[i] \notin GuardPieces
    /\ \A i \in DOMAIN response : response[i] \notin GuardPieces

\* the graph ended after three model invocations and two batches
C28_Witness ==
    /\ pc = "end"
    /\ nInvoke = 3
    /\ Len(messages) = 6
    /\ messages[5].type = "tool"
    /\ Last(messages).content = <<"a">>

\* C29: the result of a run holds the audit block exactly when the final state
\* ends with an assistant message without tool calls whose stripped text is
\* not empty and some assistant message of the conversation carries a tool
\* call; the notices and the error texts list no tool call.
C29_AuditBlockIffAnswerAndCalls ==
    Extracted =>
        (HasAuditBlock(agent_result) <=>
            /\ EndsWithAnswer(messages)
            /\ Strip(Last(messages).content) # << >>
            /\ IssuedCalls(messages) # << >>)

\* a blank final answer after a batch of two tool calls: the notice lists none of them
C29_Witness ==
    /\ pc = "return"
    /\ nInvoke = 2
    /\ Len(IssuedCalls(messages)) = 2
    /\ EndsWithAnswer(messages)
    /\ Last(messages).content = <<" ">>
    /\ agent_result = EmptyNotice

\* a successful response with a body of the expected shape
ExpectedAnswer == upstream = Response200(JDict(<<<<"data", JDict(<<<<"list", Rows>>>>)>>>>))

\* C27: for every flow given, "both" included, the two statistics queries send
\* the POST with the flow as it was given, and the flow decides nothing of
\* what they return: an answer of the expected shape gives its list.
C27_FlowSentUnchanged ==
    (Handled /\ IsDados) =>
        /\ request.method = "POST"
        /\ request.json # << >>
        /\ request.json[1].flow = served.args.flow
        /\ ExpectedAnswer => returned = [raised |-> "", value |-> Rows]

\* flow "both" went out and the list of the answer came back
C27_Witness ==
    /\ Handled
    /\ served.tool = "dados_municipio"
    /\ served.args.flow = "both"
    /\ request.json[1].flow = "both"
    /\ ExpectedAnswer
    /\ returned.value = Rows

\* a successful response whose body is JSON
JsonAnswer == upstream.kind = "response" /\ upstream.status = 200 /\ upstream.body.is # "not_json"

\* C30 as stated: a tool that got a successful response with a JSON body, of
\* the expected shape or not, raises nothing: it returns None or data of the body.
C30_OddShapeRaisesNothing ==
    (Handled /\ JsonAnswer) => returned.raised = ""

\* C21: with two turns run at once in any interleaving of their steps, a step
\* changes the locals of one turn only; the conversation, the position and the
\* result of each turn are those of the run of that turn alone on the same
\* answers of the engine and of the tools; the session of a turn is open as
\* long as its graph runs, whatever the other turn does; and the model of the
\* cache, once loaded, is the same for both and never changes.
C21_TurnsDoNotInterfere ==
    [][ /\ \A t \in Turns :
              turns'[t] # turns[t] => \A u \in Turns \ {t} : turns'[u] = turns[u]
        /\ \A t \in Turns :
              turns'[t].pc \in {"agent", "action", "end", "return"} =>
                  LET alone == Alone(turns'[t].user_query, turns'[t].heard)
                  IN  /\ turns'[t].messages = alone.messages
                      /\ turns'[t].pc = alone.pc
                      /\ turns'[t].agent_result = alone.agent_result
                      /\ turns'[t].messages[1] = HumanMessage(turns'[t].user_query)
        /\ \A t \in Turns :
              turns'[t].pc \in {"agent", "action", "end"} => turns'[t].session = "open"
        /\ model.loaded => model' = model
        /\ \A t \in Turns :
              turns'[t].pc # "start" => model' = ChatOpenAI ]_vars

\* both turns are in their graph runs, on different queries, one waiting for
\* its tool and the other for the model after a tool result
C21_Witness ==
    /\ turns[1].user_query # turns[2].user_query
    /\ turns[1].pc = "action"
    /\ Len(turns[1].messages) = 2
    /\ turns[2].pc = "agent"
    /\ Len(turns[2].messages) = 3
    /\ turns[2].messages[3].status = "error"
    /\ model = ChatOpenAI

\* C31: for one input run_agent_async is started at most once; the script goes
\* to its retry only from an asyncio.run that raised before the coroutine ran,
\* so at the retry nothing of the turn has happened (no run, no conversation,
\* no model invocation, no dispatch); model invocations and dispatches happen
\* in the one started run only and no call id is dispatched twice.
C31_TurnRunsAtMostOnce ==
    [][ /\ runs' <= 1
        /\ pc' = "nest_asyncio" => pc = "run"
        /\ (retry' /\ ~retry) =>
              /\ pc = "nest_asyncio"
              /\ runs = 0
              /\ nInvoke = 0
              /\ messages = << >>
              /\ dispatched = << >>
        /\ (nInvoke' # nInvoke \/ dispatched' # dispatched) => (runs = 1 /\ runs' = 1)
        /\ \A i, j \in DOMAIN dispatched' : dispatched'[i] = dispatched'[j] => i = j ]_vars

\* in the retry the model was invoked twice and a tool was dispatched; the
\* second invocation raised with the message of the running loop, which came
\* back as text and started no further run
C31_Witness ==
    /\ pc = "done"
    /\ retry
    /\ runs = 1
    /\ nInvoke = 2
    /\ Len(dispatched) = 1
    /\ response = <<"An error occurred during agent execution (ainvoke): ",
                    "asyncio.run() cannot be called from a running event loop">>

\* user and assistant entries take turns, the first is a user entry
Alternates(h) ==
    \A i \in DOMAIN h : h[i].role = (IF i % 2 = 1 THEN "user" ELSE "assistant")

\* C32: the history only grows, by one entry at a time: the user entry with the
\* prompt when the input is taken, and one assistant entry when its handling
\* ends, on every path (a returned answer or error text, a failed retry,
\* nest_asyncio missing, any other exception of asyncio.run); the content of
\* the assistant entry is the response and is neither empty nor blank; so the
\* history alternates user/assistant and holds an even number of entries
\* exactly when no input is being handled.
C32_TwoEntriesPerInput ==
    [][ /\ Len(history') <= Len(history) + 1
        /\ SubSeq(history', 1, Len(history)) = history
        /\ (pc = "input" /\ pc' # "input") =>
              history' = history \o <<[role |-> "user", content |-> prompt']>>
        /\ (pc # "done" /\ pc' = "done") =>
              /\ pc \in {"run", "nest_asyncio", "return"}
              /\ history' = history \o <<[role |-> "assistant", content |-> response']>>
              /\ response' # << >>
              /\ Strip(response') # << >>
              /\ \A i \in DOMAIN response' : response'[i] # ""
        /\ history' # history => ((pc = "input" /\ pc' = "run") \/ (pc # "done" /\ pc' = "done"))
        /\ Alternates(history')
        /\ (Len(history') % 2 = 0) <=> (pc' \in {"input", "done"}) ]_vars

\* after an earlier turn, the retry under nest_asyncio failed: the history
\* holds the prompt and the text of the handler
C32_Witness ==
    /\ pc = "done"
    /\ Len(history) = 4
    /\ retry
    /\ runs = 0
    /\ history[3] = [role |-> "user", content |-> prompt]
    /\ history[4].role = "assistant"
    /\ history[4].content = <<"An error occurred even after applying nest_asyncio: ", "boom">>

====
